---- MODULE Spec2Model ----
(***************************************************************************)
(* caixa2bean: the transaction consolidator (src/src/consolidator.ts), the *)
(* account classifier and the converter (converter.ts, kept here as        *)
(* src/unnamed/part_009), with the configuration of config.ts              *)
(* (src/unnamed/part_005) and the records of types.ts                      *)
(* (src/unnamed/part_008).                                                 *)
(*                                                                         *)
(* Conventions of the model                                                *)
(*  - Amounts are integers in cents (0.50 EUR is 50).  A null amount is    *)
(*    Null; the code only ever tests amounts for truthiness, so Null and 0 *)
(*    are told apart only when records are compared.                       *)
(*  - A string is the sequence of its words.  The parser normalises every  *)
(*    text field to single spaces with no leading or trailing blank, so a  *)
(*    field is exactly a word sequence; the separator " - " is the word    *)
(*    "-", and String.includes is the occurrence of a contiguous word      *)
(*    sequence.  No word of the vocabulary contains another one.           *)
(*  - A date DD/MM/YYYY is the tuple <<DD, MM, YYYY>>.                     *)
(*  - uid is the identity of a JavaScript object (the code never reads     *)
(*    it): the records of a statement carry 1, 2, ... and an object built  *)
(*    by the consolidator carries a negative uid.                          *)
(***************************************************************************)
EXTENDS Integers, Sequences, FiniteSets, TLC

VARIABLES
    \* ---- a caller of TransactionConsolidator.consolidate
    transactions,            \* the caller's array, as it is now
    input0,                  \* history: the caller's array before any call
    appConfig,               \* ConfigManager.config.consolidator, cached for the process
    pc,                      \* "idle", "called" (one call returned or threw), "again"
    result,                  \* outcome of the first call
    result2,                 \* outcome of the call on the first call's result
    manualReviewCandidates,  \* TransactionConsolidator.manualReviewCandidates (static)
    \* ---- two BeancountConverter.convert calls in flight
    data,                    \* call -> the statement's transactions (its own array)
    cfile,                   \* call -> the balances of its ParsedExcelFile
    cpc,                     \* call -> position in convert
    centries,                \* call -> the ledger entries converted so far
    cres,                    \* call -> outcome of its consolidate
    rendered,                \* call -> the review candidates its output lists
    lines,                   \* call -> the lines pushed so far
    \* ---- the classifier
    merchantsFile,           \* merchants.json on disk
    merchantConfig,          \* BeancountConverter.merchantConfig (static cache)
    ctxn,                    \* the transaction last classified
    cacct,                   \* outcome of the last determineAccount
    \* ---- a single call of one function of the consolidator
    callArgs,                \* the function called and its arguments
    callValue,               \* what the call returned
    \* ---- one run of the command "convert" of the CLI
    cliArgs,                 \* the command line and what the run finds on its way
    cliPc,                   \* the step the action handler is at
    cliPassed,               \* history: the steps that succeeded, in order
    outputDir,               \* the directory of the output path
    outputFile,              \* the file at the output path
    exitCode                 \* the exit status of the process, once it has ended

vars == <<transactions, input0, appConfig, pc, result, result2, manualReviewCandidates,
          data, cfile, cpc, centries, cres, rendered, lines,
          merchantsFile, merchantConfig, ctxn, cacct,
          callArgs, callValue,
          cliArgs, cliPc, cliPassed, outputDir, outputFile, exitCode>>

consolidatorVars == <<transactions, input0, pc, result, result2>>
convertVars == <<data, cfile, cpc, centries, cres, rendered, lines>>
classifierVars == <<merchantsFile, merchantConfig, ctxn, cacct>>
callVars == <<callArgs, callValue>>
cliVars == <<cliArgs, cliPc, cliPassed, outputDir, outputFile, exitCode>>

----------------------------------------------------------------------------
(* Bounds of the model *)

\* longest statement handed to consolidate
MaxLen == 5

----------------------------------------------------------------------------
(* Values *)

\* the null of "number | null"
Null == -1

\* JavaScript truthiness of an amount: neither null nor 0
Truthy(x) == x # Null /\ x # 0

\* x || 0
OrZero(x) == IF Truthy(x) THEN x ELSE 0

\* Option values: <<>> is null/undefined, <<v>> is v
None == <<>>
Some(v) == <<v>>

----------------------------------------------------------------------------
(* Strings as word sequences *)

\* String.prototype.toLowerCase on one word
LowerWord(w) ==
    CASE w = "SERUNION" -> "serunion"
      [] w = "VENDING" -> "vending"
      [] w = "COMPRA" -> "compra"
      [] w = "CON" -> "con"
      [] w = "TARJETA" -> "tarjeta"
      [] w = "DEVOLUCION" -> "devolucion"
      [] w = "CAFE" -> "cafe"
      [] w = "SHELL" -> "shell"
      [] w = "Shell" -> "shell"
      [] w = "LIDL" -> "lidl"
      [] w = ".XLSX" -> ".xlsx"
      [] w = "Snack" -> "snack"
      [] w = "Drink" -> "drink"
      [] w = "Purchase" -> "purchase"
      [] w = "Transaction" -> "transaction"
      [] OTHER -> w

toLowerCase(s) == [i \in 1..Len(s) |-> LowerWord(s[i])]

\* String.prototype.includes
includes(s, k) ==
    \E i \in 0..(Len(s) - Len(k)) : SubSeq(s, i + 1, i + Len(k)) = k

\* Array.prototype.filter(Boolean) on strings: the empty string is falsy
filterBoolean(parts) == SelectSeq(parts, LAMBDA p : p # <<>>)

\* Array.prototype.join
RECURSIVE join(_, _)
join(parts, sep) ==
    IF parts = <<>> THEN <<>>
    ELSE IF Len(parts) = 1 THEN parts[1]
    ELSE parts[1] \o sep \o join(Tail(parts), sep)

\* TransactionConsolidator.buildDescription, BeancountConverter.buildDescription
\* (trim has nothing to remove from normalised fields)
buildDescription(txn) ==
    LET parts == filterBoolean(<<txn.conceptoComplementario1,
                                 txn.conceptoComplementario9,
                                 txn.conceptoComplementario2>>)
        joined == join(parts, <<"-">>)
    IN  IF joined = <<>> THEN <<"Transaction">> ELSE joined

----------------------------------------------------------------------------
(* Configuration *)

\* ConfigManager.loadConfig: the built-in consolidator configuration
DefaultConsolidatorConfig ==
    [enabled |-> TRUE,
     preAuthThreshold |-> 250,
     purchaseMinAmount |-> 50,
     purchaseMaxAmount |-> 200,
     manualReviewEnabled |-> TRUE]

\* consolidator sections a config.json may hold
ConsolidatorConfigs ==
    {DefaultConsolidatorConfig,
     [DefaultConsolidatorConfig EXCEPT !.preAuthThreshold = 100],
     [DefaultConsolidatorConfig EXCEPT !.manualReviewEnabled = FALSE],
     [DefaultConsolidatorConfig EXCEPT !.enabled = FALSE]}

----------------------------------------------------------------------------
(* Transactions *)

D3101 == <<31, 1, 2025>>
D0102 == <<1, 2, 2025>>

CCT == <<"COMPRA", "CON", "TARJETA">>
DEVOLUCION == <<"DEVOLUCION", "COMPRA">>
VENDING == <<"SERUNION", "VENDING">>
CAFE == <<"CAFE">>

\* an ExcelTransaction without its identity and balance
Row(date, credit, debit, c1, c9) ==
    [transactionDate |-> date, referencia2 |-> "card1",
     creditAmount |-> credit, debitAmount |-> debit,
     conceptoComplementario1 |-> c1, conceptoComplementario9 |-> c9,
     conceptoComplementario2 |-> <<>>]

\* the rows statements are made of
PV300 == Row(D3101, Null, 300, VENDING, CCT)      \* vending pre-auth 3.00
U50v == Row(D3101, Null, 50, VENDING, CCT)        \* card purchase 0.50 at the vending machine
U50n == Row(D3101, Null, 50, CAFE, CCT)           \* card purchase 0.50 elsewhere
U150 == Row(D3101, Null, 150, CAFE, CCT)          \* card purchase 1.50
R300 == Row(D3101, 300, Null, <<>>, DEVOLUCION)   \* purchase refund 3.00
R50 == Row(D3101, 50, Null, <<>>, DEVOLUCION)     \* purchase refund 0.50
U50d == Row(D0102, Null, 50, CAFE, CCT)           \* card purchase 0.50 on 01/02/2025

Rows == {PV300, U50v, U50n, U150, R300, R50, U50d}

\* the i-th record of a statement: object i, with its own balance
Record(row, i, base) ==
    [uid |-> base + i, balance |-> 1000 + base + i,
     transactionDate |-> row.transactionDate, referencia2 |-> row.referencia2,
     creditAmount |-> row.creditAmount, debitAmount |-> row.debitAmount,
     conceptoComplementario1 |-> row.conceptoComplementario1,
     conceptoComplementario9 |-> row.conceptoComplementario9,
     conceptoComplementario2 |-> row.conceptoComplementario2]

\* a statement: the rows in the order of the file
Statement(rows, base) == [i \in 1..Len(rows) |-> Record(rows[i], i, base)]

----------------------------------------------------------------------------
(* TransactionConsolidator *)

\* String.prototype.localeCompare on two DD/MM/YYYY strings: the strings have
\* the same length and the same layout, so they compare digit by digit from
\* the left, that is by day, then month, then year
localeCompare(a, b) ==
    IF a[1] # b[1] THEN (IF a[1] < b[1] THEN -1 ELSE 1)
    ELSE IF a[2] # b[2] THEN (IF a[2] < b[2] THEN -1 ELSE 1)
    ELSE IF a[3] # b[3] THEN (IF a[3] < b[3] THEN -1 ELSE 1)
    ELSE 0

\* the comparator handed to sort
dateCompare(a, b) == localeCompare(a.transactionDate, b.transactionDate)

\* Array.prototype.sort is stable: x, which followed every element of the
\* sorted array s, goes behind the elements that do not compare greater
InsertSorted(s, x) ==
    LET k == Cardinality({i \in 1..Len(s) : dateCompare(s[i], x) <= 0})
    IN  SubSeq(s, 1, k) \o <<x>> \o SubSeq(s, k + 1, Len(s))

RECURSIVE sort(_)
sort(s) ==
    IF s = <<>> THEN <<>>
    ELSE InsertSorted(sort(SubSeq(s, 1, Len(s) - 1)), s[Len(s)])

getTransactionId(txn) ==
    <<txn.transactionDate, txn.referencia2,
      OrZero(txn.debitAmount), OrZero(txn.creditAmount)>>

isRefundCandidate(txn) ==
    IF ~Truthy(txn.creditAmount) \/ txn.creditAmount <= 0 THEN FALSE
    ELSE LET description == toLowerCase(buildDescription(txn))
         IN  includes(description, <<"devolucion">>) /\ includes(description, <<"compra">>)

\* how far back the two searches look
PurchaseWindow == 10
PreAuthWindow == 15

\* the loop of findPrecedingPurchase from position i down (positions from 1)
RECURSIVE PurchaseLoop(_, _, _, _, _)
PurchaseLoop(txns, i, refundIndex, refund, config) ==
    IF ~(i >= 1 /\ i > refundIndex - PurchaseWindow) THEN None
    ELSE LET txn == txns[i]
         IN  IF txn.transactionDate # refund.transactionDate THEN None
             ELSE IF txn.referencia2 # refund.referencia2
                  THEN PurchaseLoop(txns, i - 1, refundIndex, refund, config)
             ELSE IF /\ Truthy(txn.debitAmount)
                     /\ txn.debitAmount >= config.purchaseMinAmount
                     /\ txn.debitAmount <= config.purchaseMaxAmount
                     /\ includes(toLowerCase(buildDescription(txn)),
                                 <<"compra", "con", "tarjeta">>)
                  THEN Some(txn)
             ELSE PurchaseLoop(txns, i - 1, refundIndex, refund, config)

findPrecedingPurchase(txns, refundIndex, refund, config) ==
    PurchaseLoop(txns, refundIndex - 1, refundIndex, refund, config)

\* the loop of findPrecedingPreAuth from position i down
RECURSIVE PreAuthLoop(_, _, _, _)
PreAuthLoop(txns, i, refundIndex, refund) ==
    IF ~(i >= 1 /\ i > refundIndex - PreAuthWindow) THEN None
    ELSE LET txn == txns[i]
         IN  IF txn.transactionDate # refund.transactionDate THEN None
             ELSE IF txn.referencia2 # refund.referencia2
                  THEN PreAuthLoop(txns, i - 1, refundIndex, refund)
             ELSE IF txn.debitAmount = refund.creditAmount THEN Some(txn)
             ELSE PreAuthLoop(txns, i - 1, refundIndex, refund)

findPrecedingPreAuth(txns, refundIndex, refund, purchase) ==
    PreAuthLoop(txns, refundIndex - 1, refundIndex, refund)

\* calculateConfidence without the point for the same card
calculateConfidenceNoCardPoint(preAuth, purchase, refund) ==
    LET vending == includes(toLowerCase(buildDescription(preAuth)), <<"vending">>)
                   \/ includes(toLowerCase(buildDescription(preAuth)), <<"serunion">>)
        score == (IF vending THEN 2 ELSE 0)
                 + (IF refund.creditAmount = preAuth.debitAmount THEN 2 ELSE 0)
                 + (IF purchase.debitAmount >= 50 /\ purchase.debitAmount <= 150
                    THEN 1 ELSE 0)
    IN  IF score >= 5 THEN "high" ELSE IF score >= 3 THEN "medium" ELSE "low"

\* calculateConfidence with the tiers one point higher
calculateConfidenceFromSix(preAuth, purchase, refund) ==
    LET vending == includes(toLowerCase(buildDescription(preAuth)), <<"vending">>)
                   \/ includes(toLowerCase(buildDescription(preAuth)), <<"serunion">>)
        score == (IF vending THEN 2 ELSE 0)
                 + (IF refund.creditAmount = preAuth.debitAmount THEN 2 ELSE 0)
                 + (IF purchase.debitAmount >= 50 /\ purchase.debitAmount <= 150
                    THEN 1 ELSE 0)
                 + (IF preAuth.referencia2 = purchase.referencia2
                       /\ purchase.referencia2 = refund.referencia2 THEN 1 ELSE 0)
    IN  IF score >= 6 THEN "high" ELSE IF score >= 4 THEN "medium" ELSE "low"

calculateConfidence(preAuth, purchase, refund) ==
    LET vending == includes(toLowerCase(buildDescription(preAuth)), <<"vending">>)
                   \/ includes(toLowerCase(buildDescription(preAuth)), <<"serunion">>)
        score == (IF vending THEN 2 ELSE 0)
                 + (IF refund.creditAmount = preAuth.debitAmount THEN 2 ELSE 0)
                 + (IF purchase.debitAmount >= 50 /\ purchase.debitAmount <= 150
                    THEN 1 ELSE 0)
                 + (IF preAuth.referencia2 = purchase.referencia2
                       /\ purchase.referencia2 = refund.referencia2 THEN 1 ELSE 0)
    IN  IF score >= 5 THEN "high" ELSE IF score >= 3 THEN "medium" ELSE "low"

\* the three parts of the rationale, each a description and an amount
generateReasoning(preAuth, purchase, refund) ==
    <<<<"Pre-auth", buildDescription(preAuth), preAuth.debitAmount>>,
      <<"Purchase", buildDescription(purchase), purchase.debitAmount>>,
      <<"Refund", buildDescription(refund), refund.creditAmount>>>>

\* a ConsolidationCandidate, or None
\* detectPreAuthPattern once findPrecedingPreAuth has returned preAuth
PatternWithPreAuth(preAuth, purchase, candidate) ==
    IF preAuth = None THEN None
    ELSE Some([transactions |-> <<preAuth[1], purchase, candidate>>,
               confidence |-> calculateConfidence(preAuth[1], purchase, candidate),
               reasoning |-> generateReasoning(preAuth[1], purchase, candidate),
               suggestedAccount |-> "Expenses:Food:Snacks"])

\* detectPreAuthPattern once findPrecedingPurchase has returned purchase
PatternWithPurchase(txns, startIndex, candidate, purchase) ==
    IF purchase = None THEN None
    ELSE PatternWithPreAuth(findPrecedingPreAuth(txns, startIndex, candidate, purchase[1]),
                            purchase[1], candidate)

detectPreAuthPattern(txns, startIndex, config) ==
    IF ~isRefundCandidate(txns[startIndex]) THEN None
    ELSE PatternWithPurchase(txns, startIndex, txns[startIndex],
                             findPrecedingPurchase(txns, startIndex, txns[startIndex], config))

\* Array.prototype.find on the legs: the first leg with a truthy debit on the
\* wanted side of the threshold, or undefined
FindLeg(legs, below, threshold) ==
    LET hits == SelectSeq(legs, LAMBDA t :
                    /\ Truthy(t.debitAmount)
                    /\ (IF below THEN t.debitAmount < threshold
                                 ELSE t.debitAmount >= threshold))
    IN  IF hits = <<>> THEN None ELSE Some(hits[1])

generateConsolidatedDescription(preAuth, purchase) ==
    LET preAuthDesc == buildDescription(preAuth)
        purchaseAmount == OrZero(purchase.debitAmount)
        itemType == IF purchaseAmount <= 60 THEN "Snack"
                    ELSE IF purchaseAmount <= 120 THEN "Drink"
                    ELSE "Purchase"
    IN  preAuthDesc \o <<"-", itemType>>

\* [threw, value]: reading a field of undefined throws a TypeError, which is
\* what becomes of a leg that find did not find; otherwise value is the new
\* object {...purchase, conceptoComplementario1: ...}
createConsolidatedTransaction(candidate, config) ==
    LET purchase == FindLeg(candidate.transactions, TRUE, config.preAuthThreshold)
        preAuth == FindLeg(candidate.transactions, FALSE, config.preAuthThreshold)
    IN  IF preAuth = None \/ purchase = None
        THEN [threw |-> TRUE, value |-> None]
        ELSE [threw |-> FALSE,
              value |-> Some([purchase[1] EXCEPT
                  !.uid = 0 - candidate.transactions[3].uid,
                  !.conceptoComplementario1 =
                      generateConsolidatedDescription(preAuth[1], purchase[1])])]

\* the locals of consolidate before its loop; merged and detected are history:
\* the groups merged (with the object emitted for each) and every group formed
ScanStart ==
    [processed |-> {}, consolidated |-> <<>>, manualReview |-> <<>>,
     threw |-> FALSE, merged |-> <<>>, detected |-> <<>>]

\* the high-confidence branch of the loop body, made being what
\* createConsolidatedTransaction did
AutoConsolidate(st, candidate, made) ==
    IF made.threw
    THEN [st EXCEPT !.threw = TRUE,
                    !.detected = Append(@, candidate)]
    ELSE [st EXCEPT
        !.consolidated = Append(@, made.value[1]),
        !.processed = @ \cup {getTransactionId(candidate.transactions[k]) : k \in 1..3},
        !.merged = Append(@, [candidate |-> candidate, emitted |-> made.value[1]]),
        !.detected = Append(@, candidate)]

\* the loop body once detectPreAuthPattern has returned candidate
ScanCandidate(sorted, i, st, config, candidate) ==
    IF candidate = None
    THEN [st EXCEPT !.consolidated = Append(@, sorted[i])]
    ELSE IF candidate[1].confidence = "high"
    THEN AutoConsolidate(st, candidate[1],
                         createConsolidatedTransaction(candidate[1], config))
    ELSE IF config.manualReviewEnabled
    THEN [st EXCEPT !.manualReview = Append(@, candidate[1]),
                    !.consolidated = Append(@, sorted[i]),
                    !.detected = Append(@, candidate[1])]
    ELSE [st EXCEPT !.consolidated = Append(@, sorted[i]),
                    !.detected = Append(@, candidate[1])]

\* one iteration of the loop of consolidate, for position i
ScanStep(sorted, i, st, config) ==
    IF getTransactionId(sorted[i]) \in st.processed THEN st
    ELSE ScanCandidate(sorted, i, st, config, detectPreAuthPattern(sorted, i, config))

\* the loop of consolidate from position i on; a throw leaves the loop
RECURSIVE ScanLoop(_, _, _, _)
ScanLoop(sorted, i, st, config) ==
    IF i > Len(sorted) \/ st.threw THEN st
    ELSE ScanLoop(sorted, i + 1, ScanStep(sorted, i, st, config), config)

\* what the call leaves behind, st being the locals when the loop ended
ScanEnd(sorted, st, review) ==
    IF st.threw
    THEN [threw |-> TRUE, value |-> <<>>, array |-> sorted, review |-> review,
          merged |-> st.merged, detected |-> st.detected,
          flagged |-> st.manualReview]
    ELSE [threw |-> FALSE, value |-> st.consolidated, array |-> sorted,
          review |-> st.manualReview,
          merged |-> st.merged, detected |-> st.detected,
          flagged |-> st.manualReview]

\* consolidate from its loop on, on the sorted array
Scan(sorted, config, review) ==
    ScanEnd(sorted, ScanLoop(sorted, 1, ScanStart, config), review)

\* consolidate without the test of config.enabled
consolidateWhateverEnabled(txns, config, review) ==
    Scan(sort(txns), config, review)

\* TransactionConsolidator.consolidate after its await, on the array txns with
\* the static review list being review:
\*   threw   the call rejected
\*   value   the array returned
\*   array   the caller's array after the call (sort works in place)
\*   review  the static review list after the call
consolidate(txns, config, review) ==
    IF ~config.enabled
    THEN [threw |-> FALSE, value |-> txns, array |-> txns, review |-> review,
          merged |-> <<>>, detected |-> <<>>, flagged |-> <<>>]
    ELSE Scan(sort(txns), config, review)

\* no call made yet
NoResult ==
    [threw |-> FALSE, value |-> <<>>, array |-> <<>>, review |-> <<>>,
     merged |-> <<>>, detected |-> <<>>, flagged |-> <<>>]

----------------------------------------------------------------------------
(* BeancountConverter: the classifier *)

\* most rules of one kind in a merchants.json of the model
MaxRules == 2

\* a regular expression of a pattern rule: a literal text, which matches where
\* the text occurs, or a malformed expression, which new RegExp rejects
Literal(text) == [valid |-> TRUE, text |-> text]
Malformed == [valid |-> FALSE, text |-> <<>>]

\* the clauses of a fallback condition "c1 AND c2 AND ..."
AmountLeq(v) == [kind |-> "amount <=", value |-> v, text |-> <<>>]
AmountGeq(v) == [kind |-> "amount >=", value |-> v, text |-> <<>>]
Contains(t) == [kind |-> "description CONTAINS", value |-> 0, text |-> t]

\* loadMerchantConfig: the rule set used when merchants.json does not exist
DefaultMerchantConfig ==
    [rules |-> <<
        [keywords |-> << <<"shell">>, <<"fuel">>, <<"gas">> >>,
         account |-> "Expenses:Transportation:Fuel"],
        [keywords |-> << <<"amazon">>, <<"lidl">> >>, account |-> "Expenses:Groceries"],
        [keywords |-> << <<"bizum">>, <<"transfer">> >>,
         account |-> "Assets:Bank:Caixa:Savings"],
        [keywords |-> << <<"income">>, <<"salary">>, <<"haber">> >>,
         account |-> "Income:Salary"],
        [keywords |-> << <<"vending">>, <<"snack">> >>, account |-> "Expenses:Food:Snacks"],
        [keywords |-> << <<"steam">>, <<"game">> >>,
         account |-> "Expenses:Entertainment:Games"] >>,
     patterns |-> <<>>,
     fallbacks |-> <<>>]

\* merchants.json as the process finds it: absent (readFile fails with
\* ENOENT), unreadable (readFile fails with another code), unparsable
\* (JSON.parse throws), or holding a rule set
Absent == [status |-> "absent", config |-> DefaultMerchantConfig]
Unreadable == [status |-> "unreadable", config |-> DefaultMerchantConfig]
Unparsable == [status |-> "unparsable", config |-> DefaultMerchantConfig]
Holding(config) == [status |-> "ok", config |-> config]

\* loadMerchantConfig with every error of the try block handled as ENOENT
loadMerchantConfigLenient(cache, file) ==
    IF cache # None
    THEN [threw |-> FALSE, config |-> cache[1], cache |-> cache]
    ELSE IF file.status = "ok"
    THEN [threw |-> FALSE, config |-> file.config, cache |-> Some(file.config)]
    ELSE [threw |-> FALSE, config |-> DefaultMerchantConfig,
          cache |-> Some(DefaultMerchantConfig)]

\* loadMerchantConfig with the static cache being cache: [threw, config, cache]
loadMerchantConfig(cache, file) ==
    IF cache # None
    THEN [threw |-> FALSE, config |-> cache[1], cache |-> cache]
    ELSE IF file.status = "ok"
    THEN [threw |-> FALSE, config |-> file.config, cache |-> Some(file.config)]
    ELSE IF file.status = "absent"
    THEN [threw |-> FALSE, config |-> DefaultMerchantConfig,
          cache |-> Some(DefaultMerchantConfig)]
    ELSE [threw |-> TRUE, config |-> DefaultMerchantConfig, cache |-> cache]

\* the description of determineAccount without its toLowerCase
AccountDescriptionCaseKept(txn) ==
    join(filterBoolean(<<txn.conceptoComplementario1,
                         txn.conceptoComplementario9,
                         txn.conceptoComplementario2>>), <<>>)

\* the description determineAccount matches against: the fields joined by one
\* blank, in lower case
AccountDescription(txn) ==
    toLowerCase(join(filterBoolean(<<txn.conceptoComplementario1,
                                     txn.conceptoComplementario9,
                                     txn.conceptoComplementario2>>), <<>>))

\* rule.keywords.some(keyword => description.includes(keyword.toLowerCase()))
KeywordRuleMatches(rule, description) ==
    \E k \in DOMAIN rule.keywords : includes(description, toLowerCase(rule.keywords[k]))

\* new RegExp(pattern.regex, 'i').test(description), for a well-formed regex
RegExpTest(regex, description) == includes(description, toLowerCase(regex.text))

HasClause(condition, clause) == \E c \in DOMAIN condition : condition[c] = clause

evaluateFallbackCondition(condition, txn, description) ==
    LET amount == IF Truthy(txn.debitAmount) THEN txn.debitAmount
                  ELSE OrZero(txn.creditAmount)
    IN  IF HasClause(condition, AmountLeq(200)) /\ amount > 200 THEN FALSE
        ELSE IF /\ HasClause(condition, Contains(<<"compra", "con", "tarjeta">>))
                /\ ~includes(description, <<"compra", "con", "tarjeta">>)
        THEN FALSE
        ELSE TRUE

\* the three loops of determineAccount, each from rule i on: [threw, account]
RECURSIVE FallbackLoop(_, _, _, _)
FallbackLoop(fallbacks, i, txn, description) ==
    IF i > Len(fallbacks) THEN [threw |-> FALSE, account |-> "Expenses:Unknown"]
    ELSE IF evaluateFallbackCondition(fallbacks[i].condition, txn, description)
    THEN [threw |-> FALSE, account |-> fallbacks[i].account]
    ELSE FallbackLoop(fallbacks, i + 1, txn, description)

RECURSIVE PatternLoop(_, _, _, _)
PatternLoop(config, i, txn, description) ==
    IF i > Len(config.patterns) THEN FallbackLoop(config.fallbacks, 1, txn, description)
    ELSE IF ~config.patterns[i].regex.valid
    THEN [threw |-> TRUE, account |-> "SyntaxError"]
    ELSE IF RegExpTest(config.patterns[i].regex, description)
    THEN [threw |-> FALSE, account |-> config.patterns[i].account]
    ELSE PatternLoop(config, i + 1, txn, description)

RECURSIVE KeywordLoop(_, _, _, _)
KeywordLoop(config, i, txn, description) ==
    IF i > Len(config.rules) THEN PatternLoop(config, 1, txn, description)
    ELSE IF KeywordRuleMatches(config.rules[i], description)
    THEN [threw |-> FALSE, account |-> config.rules[i].account]
    ELSE KeywordLoop(config, i + 1, txn, description)

\* determineAccount with the pattern rules tried before the keyword rules
AccountForPatternsFirst(txn, config) ==
    LET description == AccountDescription(txn)
        hits == {i \in DOMAIN config.patterns :
                    /\ config.patterns[i].regex.valid
                    /\ RegExpTest(config.patterns[i].regex, description)}
    IN  IF hits # {}
        THEN [threw |-> FALSE,
              account |-> config.patterns[CHOOSE i \in hits : \A j \in hits : i <= j].account]
        ELSE KeywordLoop(config, 1, txn, description)

\* determineAccount once the rule set is loaded
AccountFor(txn, config) == KeywordLoop(config, 1, txn, AccountDescription(txn))

\* determineAccount: [threw, account, cache]
determineAccount(txn, cache, file) ==
    LET loaded == loadMerchantConfig(cache, file)
    IN  IF loaded.threw
        THEN [threw |-> TRUE, account |-> "ConfigurationError", cache |-> loaded.cache]
        ELSE LET found == AccountFor(txn, loaded.config)
             IN  [threw |-> found.threw, account |-> found.account, cache |-> loaded.cache]

\* the rules the rule sets of the model are made of
KeywordRules ==
    {[keywords |-> << <<"shell">>, <<"fuel">> >>, account |-> "Expenses:Transportation:Fuel"],
     [keywords |-> << <<"VENDING">> >>, account |-> "Expenses:Food:Snacks"]}

PatternRules ==
    {[regex |-> Literal(<<"Compra", "con", "tarjeta">>), account |-> "Expenses:Card"],
     [regex |-> Literal(<<"shell">>), account |-> "Expenses:Transportation:Other"],
     [regex |-> Malformed, account |-> "Expenses:Broken"]}

FallbackRules ==
    {[condition |-> <<AmountLeq(200), Contains(<<"compra", "con", "tarjeta">>)>>,
      account |-> "Expenses:Food:Snacks"],
     [condition |-> <<AmountGeq(1000)>>, account |-> "Expenses:Large"]}

\* every list of at most n elements of S
Lists(S, n) == UNION {[1..k -> S] : k \in 0..n}

\* the rule sets a merchants.json of the model may hold
MerchantConfigs ==
    {[rules |-> r, patterns |-> p, fallbacks |-> f] :
        r \in Lists(KeywordRules, MaxRules),
        p \in Lists(PatternRules, MaxRules),
        f \in Lists(FallbackRules, MaxRules)}

MerchantFiles == {Absent, Unreadable, Unparsable} \cup {Holding(c) : c \in MerchantConfigs}

\* the transactions handed to the classifier
SHELL == Row(D3101, Null, 1550, <<"Shell">>, CCT)     \* fuel 15.50
HABER == Row(D3101, 5000, Null, <<>>, <<>>)           \* a credit with no text
ClassifiedRows == {PV300, U50n, U150, R300, SHELL, HABER}

----------------------------------------------------------------------------
(* A caller of consolidate: one call on a statement, then one call on what *)
(* the first call returned                                                 *)

ConvertIdle ==
    /\ data = <<>> /\ cfile = <<>> /\ cpc = <<>> /\ centries = <<>> /\ cres = <<>>
    /\ rendered = <<>> /\ lines = <<>>

ClassifierIdle ==
    /\ merchantsFile = Absent /\ merchantConfig = None
    /\ ctxn = None /\ cacct = None

CallIdle == callArgs = None /\ callValue = None

CliIdle ==
    /\ cliArgs = None /\ cliPc = "idle" /\ cliPassed = <<>>
    /\ outputDir = "writable" /\ outputFile = "absent" /\ exitCode = None

Init ==
    /\ \E k \in 0..MaxLen : \E rows \in [1..k -> Rows] : transactions = Statement(rows, 0)
    /\ input0 = transactions
    /\ appConfig \in ConsolidatorConfigs
    /\ pc = "idle"
    /\ result = NoResult
    /\ result2 = NoResult
    /\ manualReviewCandidates = <<>>
    /\ ConvertIdle
    /\ ClassifierIdle
    /\ CallIdle
    /\ CliIdle

\* consolidate(transactions)
Consolidate ==
    /\ pc = "idle"
    /\ result' = consolidate(transactions, appConfig, manualReviewCandidates)
    /\ transactions' = result'.array
    /\ manualReviewCandidates' = result'.review
    /\ pc' = "called"
    /\ UNCHANGED <<input0, appConfig, result2, convertVars, classifierVars, callVars, cliVars>>

\* consolidate(the array the first call returned)
ConsolidateAgain ==
    /\ pc = "called"
    /\ ~result.threw
    /\ result2' = consolidate(result.value, appConfig, manualReviewCandidates)
    /\ manualReviewCandidates' = result2'.review
    /\ pc' = "again"
    /\ UNCHANGED <<transactions, input0, appConfig, result, convertVars, classifierVars,
                   callVars, cliVars>>

Next == Consolidate \/ ConsolidateAgain

Spec == Init /\ [][Next]_vars

\* the same caller on short statements that also hold a pre-auth which is not
\* of a vending machine and a purchase above 1.50
MaxTierLen == 4
PN300 == Row(D3101, Null, 300, CAFE, CCT)         \* card charge 3.00 elsewhere
U180 == Row(D3101, Null, 180, CAFE, CCT)          \* card purchase 1.80
TierRows == {PV300, PN300, U180, U150, U50n, R300, R50}

InitTier ==
    /\ \E k \in 0..MaxTierLen :
           \E rows \in [1..k -> TierRows] : transactions = Statement(rows, 0)
    /\ input0 = transactions
    /\ appConfig \in ConsolidatorConfigs
    /\ pc = "idle"
    /\ result = NoResult
    /\ result2 = NoResult
    /\ manualReviewCandidates = <<>>
    /\ ConvertIdle
    /\ ClassifierIdle
    /\ CallIdle
    /\ CliIdle

SpecTier == InitTier /\ [][Next]_vars

\* the same caller in a process whose config.json disables consolidation
InitDisabled == Init /\ ~appConfig.enabled

SpecDisabled == InitDisabled /\ [][Next]_vars

----------------------------------------------------------------------------
(* A caller of the classifier: transactions classified one after another   *)
(* in one process                                                          *)

ConsolidatorIdle ==
    /\ transactions = <<>> /\ input0 = <<>>
    /\ pc = "idle" /\ result = NoResult /\ result2 = NoResult

InitClassify ==
    /\ merchantsFile \in MerchantFiles
    /\ merchantConfig = None
    /\ ctxn = None
    /\ cacct = None
    /\ appConfig = DefaultConsolidatorConfig
    /\ manualReviewCandidates = <<>>
    /\ ConsolidatorIdle
    /\ ConvertIdle
    /\ CallIdle
    /\ CliIdle

\* determineAccount(txn)
Classify ==
    \E row \in ClassifiedRows :
        LET txn == Record(row, 1, 0)
            r == determineAccount(txn, merchantConfig, merchantsFile)
        IN  /\ ctxn' = Some(txn)
            /\ cacct' = Some([threw |-> r.threw, account |-> r.account])
            /\ merchantConfig' = r.cache
            /\ UNCHANGED <<merchantsFile, appConfig, manualReviewCandidates,
                           consolidatorVars, convertVars, callVars, cliVars>>

NextClassify == Classify

SpecClassify == InitClassify /\ [][NextClassify]_vars

----------------------------------------------------------------------------
(* BeancountConverter.convert: two calls in flight in one process, each on *)
(* its own statement, taking turns at their awaits                         *)

Calls == {1, 2}

\* convertDate: DD/MM/YYYY to YYYY-MM-DD
convertDate(date) == <<date[3], date[2], date[1]>>

\* convertTransaction with the second posting carrying the amount unnegated
LedgerEntrySameSign(txn, accountName, account) ==
    LET amount == OrZero(txn.creditAmount) - OrZero(txn.debitAmount)
    IN  [date |-> convertDate(txn.transactionDate),
         flag |-> "*",
         narration |-> buildDescription(txn),
         postings |-> <<[account |-> accountName, amount |-> amount],
                        [account |-> account, amount |-> amount]>>]

\* the BeancountTransaction convertTransaction builds once the account is known
LedgerEntry(txn, accountName, account) ==
    LET amount == OrZero(txn.creditAmount) - OrZero(txn.debitAmount)
    IN  [date |-> convertDate(txn.transactionDate),
         flag |-> "*",
         narration |-> buildDescription(txn),
         postings |-> <<[account |-> accountName, amount |-> amount],
                        [account |-> account, amount |-> 0 - amount]>>]

\* the lines of the output: a comment or an empty line, the open directive,
\* a formatted transaction (formatTransaction prints the date, the flag, the
\* narration and one line per posting, amounts with two decimals, which is
\* what an amount in cents holds), a line of the review section, the balance
\* assertion
CommentLine == [kind |-> "comment"]
BlankLine == [kind |-> "blank"]
OpenDirective(date, account) == [kind |-> "open", date |-> date, account |-> account]
formatTransaction(txn) == [kind |-> "transaction", entry |-> txn]
BalanceAssertion(date, account, amount) ==
    [kind |-> "balance", date |-> date, account |-> account, amount |-> amount]

\* the period of every statement of the model
PeriodStart == <<1, 1, 2025>>
PeriodEnd == <<28, 2, 2025>>

\* credit - debit of a transaction, missing amounts counted as zero
SignedAmount(txn) == OrZero(txn.creditAmount) - OrZero(txn.debitAmount)

\* the sum of credit - debit over a sequence of transactions
RECURSIVE NetAmount(_)
NetAmount(txns) ==
    IF txns = <<>> THEN 0 ELSE SignedAmount(txns[1]) + NetAmount(Tail(txns))

\* the balances of a ParsedExcelFile whose transactions are rows: the closing
\* balance of a statement is its opening balance plus its movements
File(rows, openingBalance) ==
    [period |-> [start |-> PeriodStart, end |-> PeriodEnd],
     openingBalance |-> openingBalance,
     closingBalance |-> openingBalance + NetAmount(rows)]

OpeningBalances == {0, 10000}

\* convert up to its call of consolidate: the header comments, the open
\* directive and the opening balance when it is not zero
HeaderLines(file, defaultAccount) ==
    LET startDate == convertDate(file.period.start)
        openingTxn ==
            [date |-> startDate, flag |-> "*", narration |-> <<"Opening", "balance">>,
             postings |-> <<[account |-> defaultAccount, amount |-> file.openingBalance],
                            [account |-> "Equity:Opening-Balances",
                             amount |-> 0 - file.openingBalance]>>]
    IN  <<CommentLine, CommentLine, CommentLine, CommentLine, BlankLine,
          OpenDirective(startDate, defaultAccount), BlankLine>>
        \o (IF file.openingBalance # 0
            THEN <<formatTransaction(openingTxn), BlankLine>> ELSE <<>>)

\* the lines of the review section for one candidate
ReviewLines(review) ==
    <<[kind |-> "review", confidence |-> review.confidence],
      [kind |-> "review", reason |-> review.reasoning],
      [kind |-> "review", suggested |-> review.suggestedAccount],
      [kind |-> "review", heading |-> "Transactions:"]>>
    \o [k \in 1..Len(review.transactions) |->
           LET txn == review.transactions[k]
           IN  [kind |-> "review",
                date |-> txn.transactionDate,
                desc |-> buildDescription(txn),
                amount |-> IF Truthy(txn.debitAmount) THEN 0 - txn.debitAmount
                           ELSE txn.creditAmount]]
    \o <<CommentLine>>

RECURSIVE ReviewSection(_)
ReviewSection(reviews) ==
    IF reviews = <<>> THEN <<>>
    ELSE ReviewLines(reviews[1]) \o ReviewSection(Tail(reviews))

\* convert from its read of the review list to its end
FooterLines(file, defaultAccount, manualReviews) ==
    (IF Len(manualReviews) > 0
     THEN <<CommentLine, [kind |-> "review", heading |-> "MANUAL REVIEW REQUIRED"],
            CommentLine>> \o ReviewSection(manualReviews)
     ELSE <<>>)
    \o <<BalanceAssertion(convertDate(file.period.end), defaultAccount,
                          file.closingBalance)>>

\* the statements the two calls convert
ConvertedStatements ==
    {<<>>, <<U150>>, <<U50n, R50>>, <<U50n, U150, R50>>, <<PV300, U50n, R300>>,
     <<U50v, R50>>}

InitConvert ==
    /\ \E a, b \in ConvertedStatements :
           /\ data = [p \in Calls |-> Statement(IF p = 1 THEN a ELSE b, 10 * p)]
           /\ \E opening \in [Calls -> OpeningBalances] :
                  cfile = [p \in Calls |->
                              File(IF p = 1 THEN a ELSE b, opening[p])]
    /\ cpc = [p \in Calls |-> "awaitConverterConfig"]
    /\ centries = [p \in Calls |-> <<>>]
    /\ cres = [p \in Calls |-> NoResult]
    /\ rendered = [p \in Calls |-> <<>>]
    /\ lines = [p \in Calls |-> <<>>]
    /\ appConfig \in ConsolidatorConfigs
    /\ manualReviewCandidates = <<>>
    /\ ConsolidatorIdle
    /\ ClassifierIdle
    /\ CallIdle
    /\ CliIdle

\* convert resumes with the converter configuration, writes the header and
\* calls consolidate, which runs up to its own await of the configuration
ResumeWithConverterConfig(p) ==
    /\ cpc[p] = "awaitConverterConfig"
    /\ cpc' = [cpc EXCEPT ![p] = "awaitConsolidatorConfig"]
    /\ lines' = [lines EXCEPT ![p] = HeaderLines(cfile[p], "Assets:Bank:Caixa:Checking")]
    /\ UNCHANGED <<data, cfile, centries, cres, rendered, appConfig,
                   manualReviewCandidates, consolidatorVars, classifierVars, callVars,
                   cliVars>>

\* consolidate resumes with the configuration and runs to its end
ConsolidateBody(p) ==
    /\ cpc[p] = "awaitConsolidatorConfig"
    /\ cres' = [cres EXCEPT ![p] = consolidate(data[p], appConfig, manualReviewCandidates)]
    /\ data' = [data EXCEPT ![p] = cres'[p].array]
    /\ manualReviewCandidates' = cres'[p].review
    /\ cpc' = [cpc EXCEPT ![p] = "awaitConsolidate"]
    /\ UNCHANGED <<cfile, centries, rendered, lines, appConfig, consolidatorVars,
                   classifierVars, callVars, cliVars>>

\* convert resumes with the reduced sequence: it calls convertTransaction on
\* the first transaction or, with none to convert, reads the review list
ResumeWithConsolidated(p) ==
    /\ cpc[p] = "awaitConsolidate"
    /\ IF cres[p].threw
       THEN /\ cpc' = [cpc EXCEPT ![p] = "rejected"]
            /\ UNCHANGED <<rendered, lines>>
       ELSE IF cres[p].value = <<>>
       THEN /\ cpc' = [cpc EXCEPT ![p] = "done"]
            /\ rendered' = [rendered EXCEPT ![p] = manualReviewCandidates]
            /\ lines' = [lines EXCEPT ![p] =
                   @ \o FooterLines(cfile[p], "Assets:Bank:Caixa:Checking",
                                    manualReviewCandidates)]
       ELSE /\ cpc' = [cpc EXCEPT ![p] = "awaitConvertTransaction"]
            /\ UNCHANGED <<rendered, lines>>
    /\ UNCHANGED <<data, cfile, centries, cres, appConfig, manualReviewCandidates,
                   consolidatorVars, classifierVars, callVars, cliVars>>

\* convert resumes with a converted transaction: it goes on to the next one
\* or, after the last, reads the review list and ends
ResumeWithConverted(p) ==
    /\ cpc[p] = "awaitConvertTransaction"
    /\ LET k == Len(centries[p]) + 1
           txn == cres[p].value[k]
           r == determineAccount(txn, merchantConfig, merchantsFile)
       IN  /\ merchantConfig' = r.cache
           /\ IF r.threw
              THEN /\ cpc' = [cpc EXCEPT ![p] = "rejected"]
                   /\ UNCHANGED <<centries, rendered, lines>>
              ELSE /\ centries' = [centries EXCEPT ![p] =
                           Append(@, LedgerEntry(txn, "Assets:Bank:Caixa:Checking",
                                                 r.account))]
                   /\ IF k = Len(cres[p].value)
                      THEN /\ cpc' = [cpc EXCEPT ![p] = "done"]
                           /\ rendered' = [rendered EXCEPT ![p] = manualReviewCandidates]
                           /\ lines' = [lines EXCEPT ![p] =
                                  @ \o <<formatTransaction(centries'[p][k]), BlankLine>>
                                    \o FooterLines(cfile[p], "Assets:Bank:Caixa:Checking",
                                                   manualReviewCandidates)]
                      ELSE /\ lines' = [lines EXCEPT ![p] =
                                  @ \o <<formatTransaction(centries'[p][k]), BlankLine>>]
                           /\ UNCHANGED <<cpc, rendered>>
    /\ UNCHANGED <<data, cfile, cres, appConfig, manualReviewCandidates, consolidatorVars,
                   merchantsFile, ctxn, cacct, callVars, cliVars>>

NextConvert ==
    \E p \in Calls :
        \/ ResumeWithConverterConfig(p)
        \/ ConsolidateBody(p)
        \/ ResumeWithConsolidated(p)
        \/ ResumeWithConverted(p)

SpecConvert == InitConvert /\ [][NextConvert]_vars

----------------------------------------------------------------------------
(* calculateConfidence called on three transactions *)

\* every variable but those of the single call
restVars == <<consolidatorVars, appConfig, manualReviewCandidates, convertVars,
              classifierVars, cliVars>>

\* the transaction row with the reference ref
WithReference(row, ref) == [row EXCEPT !.referencia2 = ref]

References == {"card1", "card2"}

\* the transactions calculateConfidence is called on
ConfidencePreAuths ==
    {Record(WithReference(Row(D3101, Null, debit, c1, CCT), ref), 1, 0) :
        debit \in {50, 300}, c1 \in {VENDING, <<"VENDING">>, <<"SERUNION">>, CAFE},
        ref \in References}
ConfidencePurchases ==
    {Record(WithReference(Row(D3101, Null, debit, CAFE, CCT), ref), 2, 0) :
        debit \in {49, 50, 150, 151}, ref \in References}
ConfidenceRefunds ==
    {Record(WithReference(Row(D3101, credit, Null, <<>>, DEVOLUCION), ref), 3, 0) :
        credit \in {50, 300}, ref \in References}

InitConfidence ==
    /\ \E preAuth \in ConfidencePreAuths, purchase \in ConfidencePurchases,
          refund \in ConfidenceRefunds :
           callArgs = Some([op |-> "calculateConfidence", preAuth |-> preAuth,
                            purchase |-> purchase, refund |-> refund])
    /\ callValue = None
    /\ appConfig = DefaultConsolidatorConfig
    /\ manualReviewCandidates = <<>>
    /\ ConsolidatorIdle
    /\ ConvertIdle
    /\ ClassifierIdle
    /\ CliIdle

\* calculateConfidence(preAuth, purchase, refund)
CalculateConfidence ==
    /\ callArgs # None
    /\ callArgs[1].op = "calculateConfidence"
    /\ callValue = None
    /\ callValue' = Some(calculateConfidence(callArgs[1].preAuth, callArgs[1].purchase,
                                            callArgs[1].refund))
    /\ UNCHANGED <<callArgs, restVars>>

NextConfidence == CalculateConfidence

SpecConfidence == InitConfidence /\ [][NextConfidence]_vars

----------------------------------------------------------------------------
(* findPrecedingPurchase and findPrecedingPreAuth called on a refund and    *)
(* the transactions before it                                              *)

\* most transactions before the refund
MaxBefore == 16

\* the transaction looked for, and transactions neither search accepts
U500 == Row(D3101, Null, 500, CAFE, <<>>)                       \* debit 5.00, no card purchase
U150x == WithReference(U150, "card2")                           \* card purchase of another card
PV300x == WithReference(PV300, "card2")                         \* pre-auth of another card
Fillers == {<<U500, U500>>, <<R50, R50>>, <<U150x, PV300x>>}

\* the rows before the refund, the nearest last: the wanted row at distance
\* d from the refund (none when d = 0), a transaction of another date at
\* distance b (none when b = 0), fill everywhere else
RowsBefore(n, d, b, wanted, fill) ==
    [i \in 1..n |->
        IF n + 1 - i = d THEN wanted
        ELSE IF n + 1 - i = b THEN U50d
        ELSE fill]

InitSearch ==
    /\ \E n \in 0..MaxBefore, d \in 0..MaxBefore, b \in 0..MaxBefore, f \in Fillers,
          op \in {"findPrecedingPurchase", "findPrecedingPreAuth"} :
           /\ d <= n /\ b <= n
           /\ LET purchase == op = "findPrecedingPurchase"
                  rows == RowsBefore(n, d, b, IF purchase THEN U150 ELSE PV300,
                                     IF purchase THEN f[1] ELSE f[2])
              IN  callArgs = Some([op |-> op,
                                   transactions |-> Statement(rows \o <<R300>>, 0),
                                   refundIndex |-> n + 1])
    /\ callValue = None
    /\ appConfig = DefaultConsolidatorConfig
    /\ manualReviewCandidates = <<>>
    /\ ConsolidatorIdle
    /\ ConvertIdle
    /\ ClassifierIdle
    /\ CliIdle

\* findPrecedingPurchase(transactions, refundIndex, refund, config)
FindPrecedingPurchase ==
    /\ callArgs # None
    /\ callArgs[1].op = "findPrecedingPurchase"
    /\ callValue = None
    /\ callValue' = Some(findPrecedingPurchase(callArgs[1].transactions,
                                              callArgs[1].refundIndex,
                                              callArgs[1].transactions[callArgs[1].refundIndex],
                                              appConfig))
    /\ UNCHANGED <<callArgs, restVars>>

\* findPrecedingPreAuth(transactions, refundIndex, refund, purchase)
FindPrecedingPreAuth ==
    /\ callArgs # None
    /\ callArgs[1].op = "findPrecedingPreAuth"
    /\ callValue = None
    /\ callValue' = Some(findPrecedingPreAuth(callArgs[1].transactions,
                                             callArgs[1].refundIndex,
                                             callArgs[1].transactions[callArgs[1].refundIndex],
                                             U50n))
    /\ UNCHANGED <<callArgs, restVars>>

NextSearch == FindPrecedingPurchase \/ FindPrecedingPreAuth

SpecSearch == InitSearch /\ [][NextSearch]_vars

----------------------------------------------------------------------------
(* convertTransaction called on one transaction *)

\* convertTransaction(txn, accountName): [threw, value, cache]
convertTransaction(txn, accountName, cache, file) ==
    LET r == determineAccount(txn, cache, file)
    IN  IF r.threw
        THEN [threw |-> TRUE, value |-> None, cache |-> r.cache]
        ELSE [threw |-> FALSE,
              value |-> Some(LedgerEntry(txn, accountName, r.account)),
              cache |-> r.cache]

\* the transactions convertTransaction is called on: each amount missing,
\* zero or present
PostingAmounts == {Null, 0, 50, 1550}
PostingTransactions ==
    {Record([Row(D3101, credit, debit, c1, CCT) EXCEPT !.conceptoComplementario2 = c2],
            1, 0) :
        credit \in PostingAmounts, debit \in PostingAmounts,
        c1 \in {<<"Shell">>, <<"LIDL", "SHELL">>, <<"shell">>, CAFE, <<>>},
        c2 \in {<<>>, <<"4940">>}}

\* the bank accounts convertTransaction is called with
BankAccounts == {"Assets:Bank:Caixa:Checking", "Assets:Bank:Caixa:Savings"}

\* the merchants.json files of the calls
PostingFiles ==
    {Absent, Unreadable, Unparsable,
     Holding([rules |-> <<>>, patterns |-> <<>>, fallbacks |-> <<>>]),
     Holding([rules |-> <<>>, patterns |-> <<[regex |-> Malformed,
                                               account |-> "Expenses:Broken"]>>,
              fallbacks |-> <<>>])}

InitPostings ==
    /\ \E txn \in PostingTransactions, accountName \in BankAccounts :
           callArgs = Some([op |-> "convertTransaction", txn |-> txn,
                            accountName |-> accountName])
    /\ callValue = None
    /\ merchantsFile \in PostingFiles
    /\ merchantConfig = None
    /\ ctxn = None
    /\ cacct = None
    /\ appConfig = DefaultConsolidatorConfig
    /\ manualReviewCandidates = <<>>
    /\ ConsolidatorIdle
    /\ ConvertIdle
    /\ CliIdle

\* convertTransaction(txn, accountName)
ConvertTransaction ==
    /\ callArgs # None
    /\ callArgs[1].op = "convertTransaction"
    /\ callValue = None
    /\ callValue' = Some(convertTransaction(callArgs[1].txn, callArgs[1].accountName,
                                            merchantConfig, merchantsFile))
    /\ merchantConfig' = callValue'[1].cache
    /\ UNCHANGED <<callArgs, merchantsFile, ctxn, cacct, consolidatorVars, appConfig,
                   manualReviewCandidates, convertVars, cliVars>>

NextPostings == ConvertTransaction

SpecPostings == InitPostings /\ [][NextPostings]_vars

----------------------------------------------------------------------------
(* PathValidator.validateSafePath called on one path (POSIX paths)         *)

\* most segments of a path
MaxParts == 3

\* a path is [absolute, parts]: "docs/test.xls" is the relative path of the
\* segments docs and test.xls, "/" the absolute path of no segment and "" the
\* relative one.  The segments of the model; NulSegment stands for
\* "test.xls\0malicious"
NulSegment == "test.xls<NUL>malicious"
Segments == {"home", "user", "docs", "test.xls", ".", "..", "..cache", "a..b", NulSegment}

\* what the character tests of the code see in a segment
SegmentStartsWithDotDot(seg) == seg \in {"..", "..cache"}
SegmentIncludesDotDot(seg) == seg \in {"..", "..cache", "a..b"}
SegmentIncludesNul(seg) == seg = NulSegment

RelativePath(parts) == [absolute |-> FALSE, parts |-> parts]
AbsolutePath(parts) == [absolute |-> TRUE, parts |-> parts]

\* path.normalize on the segments of an absolute path: "." is dropped and
\* ".." removes the segment before it, if there is one
RECURSIVE NormalizeParts(_, _)
NormalizeParts(done, parts) ==
    IF parts = <<>> THEN done
    ELSE IF Head(parts) = "." THEN NormalizeParts(done, Tail(parts))
    ELSE IF Head(parts) = ".."
    THEN NormalizeParts(IF done = <<>> THEN <<>> ELSE SubSeq(done, 1, Len(done) - 1),
                        Tail(parts))
    ELSE NormalizeParts(Append(done, Head(parts)), Tail(parts))

\* path.resolve(baseDir, filePath), baseDir being absolute
resolve(baseDir, filePath) ==
    AbsolutePath(NormalizeParts(<<>>, IF filePath.absolute THEN filePath.parts
                                      ELSE baseDir.parts \o filePath.parts))

\* the length of the longest common prefix of two segment sequences
RECURSIVE CommonLength(_, _)
CommonLength(a, b) ==
    IF a = <<>> \/ b = <<>> \/ Head(a) # Head(b) THEN 0
    ELSE 1 + CommonLength(Tail(a), Tail(b))

\* path.relative(from, to), from being absolute and to resolved
relative(from, to) ==
    LET base == NormalizeParts(<<>>, from.parts)
        k == CommonLength(base, to.parts)
    IN  RelativePath([i \in 1..(Len(base) - k) |-> ".."]
                     \o SubSeq(to.parts, k + 1, Len(to.parts)))

\* String.prototype.startsWith('..') on a path
startsWithDotDot(path) ==
    ~path.absolute /\ path.parts # <<>> /\ SegmentStartsWithDotDot(path.parts[1])

\* path.isAbsolute
isAbsolute(path) == path.absolute

\* validateSafePath without its second test
validateSafePathTraversalOnly(filePath, baseDir) ==
    IF \/ startsWithDotDot(relative(baseDir, resolve(baseDir, filePath)))
       \/ isAbsolute(relative(baseDir, resolve(baseDir, filePath)))
    THEN [threw |-> TRUE, error |-> "ValidationError",
          message |-> "Path traversal detected"]
    ELSE [threw |-> FALSE, error |-> "", message |-> ""]

\* PathValidator.validateSafePath(filePath, baseDir): what it throws, if
\* anything
validateSafePath(filePath, baseDir) ==
    IF \/ startsWithDotDot(relative(baseDir, resolve(baseDir, filePath)))
       \/ isAbsolute(relative(baseDir, resolve(baseDir, filePath)))
    THEN [threw |-> TRUE, error |-> "ValidationError",
          message |-> "Path traversal detected"]
    ELSE IF \/ \E i \in DOMAIN filePath.parts : SegmentIncludesDotDot(filePath.parts[i])
            \/ \E i \in DOMAIN filePath.parts : SegmentIncludesNul(filePath.parts[i])
    THEN [threw |-> TRUE, error |-> "ValidationError",
          message |-> "Invalid characters in path"]
    ELSE [threw |-> FALSE, error |-> "", message |-> ""]

\* the paths validateSafePath is called on, and the base directories
ValidatedPaths ==
    {[absolute |-> a, parts |-> parts] :
        a \in BOOLEAN, parts \in Lists(Segments, MaxParts)}
BaseDirs == {AbsolutePath(<<"home", "user">>), AbsolutePath(<<>>)}

InitPath ==
    /\ \E filePath \in ValidatedPaths, baseDir \in BaseDirs :
           callArgs = Some([op |-> "validateSafePath", filePath |-> filePath,
                            baseDir |-> baseDir])
    /\ callValue = None
    /\ appConfig = DefaultConsolidatorConfig
    /\ manualReviewCandidates = <<>>
    /\ ConsolidatorIdle
    /\ ConvertIdle
    /\ ClassifierIdle
    /\ CliIdle

\* PathValidator.validateSafePath(filePath, baseDir)
ValidateSafePath ==
    /\ callArgs # None
    /\ callArgs[1].op = "validateSafePath"
    /\ callValue = None
    /\ callValue' = Some(validateSafePath(callArgs[1].filePath, callArgs[1].baseDir))
    /\ UNCHANGED <<callArgs, restVars>>

NextPath == ValidateSafePath

SpecPath == InitPath /\ [][NextPath]_vars

----------------------------------------------------------------------------
(* cli.ts: one run of the command "convert"                                *)

\* path.extname: the extension of the last segment
extname(path) ==
    IF path.parts = <<>> THEN ""
    ELSE CASE path.parts[Len(path.parts)] = "test.xls" -> ".xls"
           [] path.parts[Len(path.parts)] = "TEST.XLSX" -> ".XLSX"
           [] path.parts[Len(path.parts)] = "notes.txt" -> ".txt"
           [] path.parts[Len(path.parts)] = "out.beancount" -> ".beancount"
           [] OTHER -> ""

\* PathValidator.validateFileExtension: does it throw
validateFileExtension(filePath, allowedExtensions) ==
    [threw |-> LowerWord(extname(filePath)) \notin allowedExtensions,
     error |-> "ValidationError"]

\* PathValidator.validateOutputDirectory, dir being the state of the directory
\* of the output path: fs.accessSync(dir, W_OK) throws unless it is writable
validateOutputDirectory(dir) ==
    [threw |-> dir # "writable", error |-> "ValidationError"]

\* process.cwd()
Cwd == AbsolutePath(<<"home", "user">>)

\* the command lines of the model
CliInputs ==
    {RelativePath(<<"test.xls">>), RelativePath(<<"docs", "TEST.XLSX">>),
     RelativePath(<<"..", "test.xls">>), RelativePath(<<"notes.txt">>)}
CliOutputs ==
    {RelativePath(<<"out.beancount">>), RelativePath(<<"..", "out.beancount">>),
     AbsolutePath(<<"home", "user", "docs", "out.beancount">>)}

\* the steps of the handler before the write, in the order of the code
CliSteps ==
    <<"validateInput", "validateExtension", "checkExists", "validateOutput", "parse",
      "convert">>

\* every variable the run of the CLI leaves alone
notCliVars == <<consolidatorVars, appConfig, manualReviewCandidates, convertVars,
                classifierVars, callVars>>

\* the run starts: what exists at the input path, the state of the output
\* directory and of the output file, and how parseFile, convert and
\* writeFileSync will end are what the run finds
InitCli ==
    /\ outputDir \in {"missing", "readonly", "writable"}
    /\ outputFile \in {"absent", "old"}
    /\ outputDir = "missing" => outputFile = "absent"
    /\ \E input \in CliInputs, output \in CliOutputs, inputExists \in BOOLEAN,
          parse \in {"throws", "no transactions", "transactions"},
          convert \in {"returns", "rejects"}, write \in {"succeeds", "throws"} :
           cliArgs = Some([input |-> input, output |-> output,
                           inputExists |-> inputExists, parse |-> parse,
                           convert |-> convert, write |-> write,
                           outputDir0 |-> outputDir, outputFile0 |-> outputFile])
    /\ cliPc = "validateInput"
    /\ cliPassed = <<>>
    /\ exitCode = None
    /\ appConfig = DefaultConsolidatorConfig
    /\ manualReviewCandidates = <<>>
    /\ ConsolidatorIdle
    /\ ConvertIdle
    /\ ClassifierIdle
    /\ CallIdle

\* the step at cliPc ends: with a throw the catch block prints the error and
\* calls process.exit(1); otherwise the handler goes on to the step next
CliStep(threw, next) ==
    IF threw
    THEN /\ cliPc' = "exited"
         /\ exitCode' = Some(1)
         /\ UNCHANGED cliPassed
    ELSE /\ cliPc' = next
         /\ cliPassed' = Append(cliPassed, cliPc)
         /\ UNCHANGED exitCode

\* PathValidator.validateSafePath(input)
CliValidateInput ==
    /\ cliPc = "validateInput"
    /\ CliStep(validateSafePath(cliArgs[1].input, Cwd).threw, "validateExtension")
    /\ UNCHANGED <<cliArgs, outputDir, outputFile, notCliVars>>

\* PathValidator.validateFileExtension(input, ['.xls', '.xlsx'])
CliValidateExtension ==
    /\ cliPc = "validateExtension"
    /\ CliStep(validateFileExtension(cliArgs[1].input, {".xls", ".xlsx"}).threw,
               "checkExists")
    /\ UNCHANGED <<cliArgs, outputDir, outputFile, notCliVars>>

\* if (!fs.existsSync(input)) throw new FileNotFoundError(input)
CliCheckExists ==
    /\ cliPc = "checkExists"
    /\ CliStep(~cliArgs[1].inputExists, "validateOutput")
    /\ UNCHANGED <<cliArgs, outputDir, outputFile, notCliVars>>

\* the validation of the output path with the output file created on success
CliValidateOutputCreatingFile ==
    /\ cliPc = "validateOutput"
    /\ CliStep(\/ validateSafePath(cliArgs[1].output, Cwd).threw
               \/ validateOutputDirectory(outputDir).threw,
               "parse")
    /\ outputFile' = IF exitCode' = None THEN "created" ELSE outputFile
    /\ UNCHANGED <<cliArgs, outputDir, notCliVars>>

\* PathValidator.validateSafePath(output) and validateOutputDirectory(output)
CliValidateOutput ==
    /\ cliPc = "validateOutput"
    /\ CliStep(\/ validateSafePath(cliArgs[1].output, Cwd).threw
               \/ validateOutputDirectory(outputDir).threw,
               "parse")
    /\ UNCHANGED <<cliArgs, outputDir, outputFile, notCliVars>>

\* ExcelParser.parseFile(input) and the test of transactions.length
CliParse ==
    /\ cliPc = "parse"
    /\ CliStep(cliArgs[1].parse # "transactions", "convert")
    /\ UNCHANGED <<cliArgs, outputDir, outputFile, notCliVars>>

\* await BeancountConverter.convert(parsedData, options.account)
CliConvert ==
    /\ cliPc = "convert"
    /\ CliStep(cliArgs[1].convert = "rejects", "write")
    /\ UNCHANGED <<cliArgs, outputDir, outputFile, notCliVars>>

\* the output directory is created if it does not exist, the output is
\* written and the handler returns; a writeFileSync that throws may have
\* created or truncated the file
CliWrite ==
    /\ cliPc = "write"
    /\ outputDir' = IF outputDir = "missing" THEN "writable" ELSE outputDir
    /\ IF cliArgs[1].write = "succeeds"
       THEN /\ outputFile' = "written"
            /\ cliPassed' = Append(cliPassed, cliPc)
            /\ cliPc' = "exited"
            /\ exitCode' = Some(0)
       ELSE /\ outputFile' \in {outputFile, "truncated"}
            /\ cliPc' = "exited"
            /\ exitCode' = Some(1)
            /\ UNCHANGED cliPassed
    /\ UNCHANGED <<cliArgs, notCliVars>>

NextCli ==
    \/ CliValidateInput
    \/ CliValidateExtension
    \/ CliCheckExists
    \/ CliValidateOutput
    \/ CliParse
    \/ CliConvert
    \/ CliWrite

SpecCli == InitCli /\ [][NextCli]_vars

----------------------------------------------------------------------------
(* Vocabulary of the properties *)

Range(s) == {s[i] : i \in DOMAIN s}

\* the number of positions of s that hold the record t
Occurrences(s, t) == Cardinality({i \in DOMAIN s : s[i] = t})

\* the legs of a candidate group
Legs(candidate) == Range(candidate.transactions)

\* the number of merged groups that consumed t
Consumptions(merged, t) ==
    Cardinality({g \in DOMAIN merged : t \in Legs(merged[g].candidate)})

\* calendar order of two dates <<DD, MM, YYYY>>
CalendarLeq(a, b) ==
    \/ a[3] < b[3]
    \/ a[3] = b[3] /\ a[2] < b[2]
    \/ a[3] = b[3] /\ a[2] = b[2] /\ a[1] <= b[1]

\* the first call returned an array
Returned == pc # "idle" /\ ~result.threw

----------------------------------------------------------------------------
(* C1..C10 *)

\* C1 (partition): after a call that returned, every transaction of the input
\* is accounted for exactly once: verbatim once in the reduced sequence, or
\* consumed by exactly one merged group, never both and never neither.
C1_Partition ==
    Returned =>
        \A i \in DOMAIN input0 :
            Occurrences(result.value, input0[i])
                + Consumptions(result.merged, input0[i]) = 1

\* C2 (the README triple): for the statement pre-auth 3.00 at the vending
\* machine, card purchase 0.50, refund 3.00 (same day, same card) the reduced
\* sequence is one ConsolidatedTransaction of debit 0.50 and none of the three
\* originals is in it.
C2_TripleBecomesOne ==
    (pc # "idle" /\ input0 = Statement(<<PV300, U50n, R300>>, 0)
        /\ appConfig = DefaultConsolidatorConfig) =>
        /\ ~result.threw
        /\ Len(result.value) = 1
        /\ Len(result.merged) = 1
        /\ result.value[1] = result.merged[1].emitted
        /\ result.value[1].debitAmount = 50
        /\ \A i \in DOMAIN input0 : input0[i] \notin Range(result.value)

\* C3 (amount conservation): the object emitted for a merged group carries the
\* debit amount, the date and the balance of the group's purchase leg, under
\* every configuration.
C3_AmountConservation ==
    Returned =>
        \A g \in DOMAIN result.merged :
            LET purchase == result.merged[g].candidate.transactions[2]
                emitted == result.merged[g].emitted
            IN  /\ emitted.debitAmount = purchase.debitAmount
                /\ emitted.transactionDate = purchase.transactionDate
                /\ emitted.balance = purchase.balance

\* C4: no transaction is a leg of two groups merged in one call.
C4_NoSharedLeg ==
    Returned =>
        \A g, h \in DOMAIN result.merged :
            g # h => Legs(result.merged[g].candidate)
                         \cap Legs(result.merged[h].candidate) = {}

\* C6: consolidate returns normally on every statement and configuration.
C6_NeverThrows ==
    /\ pc # "idle" => ~result.threw
    /\ pc = "again" => ~result2.threw

\* C7 (frame): the transactions that are a leg of no group formed during the
\* call are in the reduced sequence exactly once each, unchanged, in the order
\* of the sorted array.
C7_NonLegsPassThrough ==
    Returned =>
        LET legs == UNION {Legs(result.detected[g]) : g \in DOMAIN result.detected}
            nonLeg(t) == t \in Range(input0) /\ t \notin legs
        IN  SelectSeq(result.value, nonLeg) = SelectSeq(result.array, nonLeg)

\* C8 (idempotence): a call on the reduced sequence of a call returns that
\* sequence and merges nothing.
C8_Idempotent ==
    pc = "again" =>
        /\ ~result2.threw
        /\ result2.merged = <<>>
        /\ result2.value = result.value

\* C9: with consolidation enabled the array is scanned, and the reduced
\* sequence emitted, in ascending calendar order, and transactions of one date
\* keep the order the statement gave them (uid is the position in it).
C9_CalendarOrder ==
    (Returned /\ appConfig.enabled) =>
        /\ \A i, j \in DOMAIN result.array :
               i < j =>
                   /\ CalendarLeq(result.array[i].transactionDate,
                                  result.array[j].transactionDate)
                   /\ (result.array[i].transactionDate = result.array[j].transactionDate
                           => result.array[i].uid < result.array[j].uid)
        /\ \A i, j \in DOMAIN result.value :
               i < j => CalendarLeq(result.value[i].transactionDate,
                                    result.value[j].transactionDate)

\* C5: the review section of a finished convert lists only candidates whose
\* transactions belong to the statement that call converted.
C5_ReviewOfOwnStatement ==
    \A p \in DOMAIN cpc :
        cpc[p] = "done" =>
            \A c \in DOMAIN rendered[p] :
                Legs(rendered[p][c]) \subseteq Range(data[p])

\* the keyword rules, the well-formed pattern rules and the fallback rules
\* of config that match txn
MatchingKeywordRules(txn, config) ==
    {i \in DOMAIN config.rules :
        KeywordRuleMatches(config.rules[i], AccountDescription(txn))}
MatchingPatternRules(txn, config) ==
    {i \in DOMAIN config.patterns :
        /\ config.patterns[i].regex.valid
        /\ RegExpTest(config.patterns[i].regex, AccountDescription(txn))}
MatchingFallbackRules(txn, config) ==
    {i \in DOMAIN config.fallbacks :
        evaluateFallbackCondition(config.fallbacks[i].condition, txn,
                                  AccountDescription(txn))}
First(S) == CHOOSE i \in S : \A j \in S : i <= j

----------------------------------------------------------------------------
(* C11..C20 *)

\* the amount a fallback condition speaks of: the debit if present, else the
\* credit, else zero
ConditionAmount(txn) ==
    IF Truthy(txn.debitAmount) THEN txn.debitAmount ELSE OrZero(txn.creditAmount)

\* what a clause of a fallback condition says of a transaction
ClauseHolds(clause, txn) ==
    CASE clause.kind = "amount <=" -> ConditionAmount(txn) <= clause.value
      [] clause.kind = "amount >=" -> ConditionAmount(txn) >= clause.value
      [] clause.kind = "description CONTAINS" ->
             includes(AccountDescription(txn), toLowerCase(clause.text))

\* C11: a fallback rule matches the transaction classified if and only if
\* every clause of its condition holds of it: each amount clause against its
\* own literal, each description clause against its own text.
C11_FallbackAllClauses ==
    (ctxn # None /\ merchantConfig # None) =>
        \A i \in DOMAIN merchantConfig[1].fallbacks :
            LET condition == merchantConfig[1].fallbacks[i].condition
            IN  evaluateFallbackCondition(condition, ctxn[1], AccountDescription(ctxn[1]))
                    <=> \A c \in DOMAIN condition : ClauseHolds(condition[c], ctxn[1])

\* C12: classifying a transaction against a rule set that holds a pattern rule
\* with a malformed regular expression raises an error, whichever other rules
\* match the transaction.
C12_MalformedRegexSurfaces ==
    (cacct # None /\ merchantConfig # None
        /\ \E i \in DOMAIN merchantConfig[1].patterns :
               ~merchantConfig[1].patterns[i].regex.valid) =>
        cacct[1].threw

\* C13: with consolidation disabled, a call returns the array it was given,
\* with the same records in the same order, leaves that array as it was, and
\* the review list read after the call is empty; the same on a second call.
C13_DisabledIsIdentity ==
    ~appConfig.enabled =>
        /\ pc # "idle" =>
               /\ ~result.threw
               /\ result.value = input0
               /\ transactions = input0
               /\ manualReviewCandidates = <<>>
        /\ pc = "again" =>
               /\ ~result2.threw
               /\ result2.value = input0

\* consolidation is disabled and two calls have returned a statement that is
\* not in sorted order and holds a vending triple
C13_DisabledCalledTwice ==
    /\ ~appConfig.enabled
    /\ pc = "again"
    /\ input0 = Statement(<<U50d, PV300, U50n, R300>>, 0)
    /\ result2.value = input0
    /\ manualReviewCandidates = <<>>

\* the score the four criteria give a candidate
ConfidenceScore(preAuth, purchase, refund) ==
    (IF \E k \in {<<"vending">>, <<"serunion">>} :
            includes(toLowerCase(buildDescription(preAuth)), k) THEN 2 ELSE 0)
    + (IF refund.creditAmount = preAuth.debitAmount THEN 2 ELSE 0)
    + (IF 50 <= purchase.debitAmount /\ purchase.debitAmount <= 150 THEN 1 ELSE 0)
    + (IF {preAuth.referencia2, purchase.referencia2, refund.referencia2}
              = {refund.referencia2} THEN 1 ELSE 0)

\* C14: the tier calculateConfidence returns is high when the score of the
\* four criteria (+2 vending keyword in the pre-auth, +2 refund credit equal
\* to the pre-auth debit, +1 purchase debit within 0.50..1.50, +1 one
\* reference for all three) is at least 5, medium when it is 3 or 4, and low
\* below 3.
C14_ConfidenceTiers ==
    (callValue # None /\ callArgs[1].op = "calculateConfidence") =>
        LET score == ConfidenceScore(callArgs[1].preAuth, callArgs[1].purchase,
                                     callArgs[1].refund)
        IN  callValue[1] = IF score >= 5 THEN "high"
                           ELSE IF score >= 3 THEN "medium"
                           ELSE "low"

\* a candidate scoring exactly 5 (vending keyword, equal amounts, one
\* reference, purchase outside 0.50..1.50) has been rated high
C14_ScoreFiveIsHigh ==
    /\ callValue # None /\ callArgs[1].op = "calculateConfidence"
    /\ ConfidenceScore(callArgs[1].preAuth, callArgs[1].purchase, callArgs[1].refund) = 5
    /\ callArgs[1].purchase.debitAmount = 151
    /\ callValue[1] = "high"

\* C15: for every group below high confidence formed by a call that returned,
\* the three transactions of the group are verbatim in the reduced sequence;
\* with manual review enabled the candidate is in the review list after the
\* call, with manual review disabled it is not.
C15_LowerTiersPassThrough ==
    (Returned /\ appConfig.enabled) =>
        \A g \in DOMAIN result.detected :
            result.detected[g].confidence # "high" =>
                /\ Legs(result.detected[g]) \subseteq Range(result.value)
                /\ appConfig.manualReviewEnabled
                       <=> result.detected[g] \in Range(result.review)

\* the positions a backward search bounded to window positions examines: those
\* at most window before the refund with no other date between them and it
Examined(txns, refundIndex, window) ==
    {i \in 1..(refundIndex - 1) :
        /\ refundIndex - i <= window
        /\ \A j \in i..(refundIndex - 1) :
               txns[j].transactionDate = txns[refundIndex].transactionDate}

\* the nearest of the positions hits, if any
Nearest(txns, hits) ==
    IF hits = {} THEN None ELSE Some(txns[CHOOSE i \in hits : \A j \in hits : j <= i])

\* a small card purchase on the refund's card
QualifiesAsPurchase(txn, refund, config) ==
    /\ txn.referencia2 = refund.referencia2
    /\ Truthy(txn.debitAmount)
    /\ config.purchaseMinAmount <= txn.debitAmount
    /\ txn.debitAmount <= config.purchaseMaxAmount
    /\ includes(toLowerCase(buildDescription(txn)), <<"compra", "con", "tarjeta">>)

\* C16: findPrecedingPurchase returns the nearest qualifying purchase among the
\* 10 positions before the refund that no change of date separates from it,
\* and nothing when there is none there.
C16_PurchaseWindowTen ==
    (callValue # None /\ callArgs[1].op = "findPrecedingPurchase") =>
        LET txns == callArgs[1].transactions
            r == callArgs[1].refundIndex
        IN  callValue[1] =
                Nearest(txns, {i \in Examined(txns, r, 10) :
                                  QualifiesAsPurchase(txns[i], txns[r], appConfig)})

\* a debit on the refund's card equal to the refund's credit
QualifiesAsPreAuth(txn, refund) ==
    /\ txn.referencia2 = refund.referencia2
    /\ txn.debitAmount = refund.creditAmount

\* C17: findPrecedingPreAuth returns the nearest qualifying pre-auth among the
\* 15 positions before the refund that no change of date separates from it,
\* and nothing when there is none there.
C17_PreAuthWindowFifteen ==
    (callValue # None /\ callArgs[1].op = "findPrecedingPreAuth") =>
        LET txns == callArgs[1].transactions
            r == callArgs[1].refundIndex
        IN  callValue[1] =
                Nearest(txns, {i \in Examined(txns, r, 15) :
                                  QualifiesAsPreAuth(txns[i], txns[r])})

\* the item-type token for a purchase debit
ItemToken(debit) ==
    IF debit <= 60 THEN "Snack" ELSE IF debit <= 120 THEN "Drink" ELSE "Purchase"

\* C18: the narration of the ledger entry converted from the object emitted
\* for a merged group is the description of the group's pre-auth, then " - ",
\* then the item-type token of the purchase's debit, and nothing else.
C18_ConsolidatedNarration ==
    \A p \in DOMAIN centries :
        \A k \in DOMAIN centries[p] :
            \A g \in DOMAIN cres[p].merged :
                cres[p].value[k] = cres[p].merged[g].emitted =>
                    LET preAuth == cres[p].merged[g].candidate.transactions[1]
                        purchase == cres[p].merged[g].candidate.transactions[2]
                    IN  centries[p][k].narration =
                            buildDescription(preAuth)
                                \o <<"-", ItemToken(purchase.debitAmount)>>

\* C19: after a call that returned, the caller's array holds the records it
\* held before the call, unchanged and in the same order.
C19_InputUntouched ==
    Returned => transactions = input0

\* two different records of two different groups of the set groups have one
\* identity
SharedIdentity(groups) ==
    \E g, h \in groups :
        /\ g # h
        /\ \E a \in Legs(g), b \in Legs(h) :
               a # b /\ getTransactionId(a) = getTransactionId(b)

\* C20: in one call that returned, no two transactions of one identity are
\* legs of two different merged groups, nor of two different groups recorded
\* for review.
C20_OneGroupPerIdentity ==
    Returned =>
        /\ ~SharedIdentity({result.merged[g].candidate : g \in DOMAIN result.merged})
        /\ ~SharedIdentity(Range(result.review))

----------------------------------------------------------------------------
(* C21..C30 *)

\* C21: after each finished call of a sequence of calls that do not overlap,
\* the static review list is the list of that call: if the call returned, it
\* holds exactly the candidates the call flagged, in scan order; in every case
\* it holds no candidate left over from an earlier call.
C21_ReviewListOfLastCall ==
    /\ pc = "called" =>
           /\ ~result.threw => manualReviewCandidates = result.flagged
           /\ Range(manualReviewCandidates) \subseteq Range(result.flagged)
    /\ pc = "again" =>
           /\ ~result2.threw => manualReviewCandidates = result2.flagged
           /\ Range(manualReviewCandidates) \subseteq Range(result2.flagged)

\* the lines of an output that are neither comments nor empty, and their kinds
Directives(ls) == SelectSeq(ls, LAMBDA l : l.kind \notin {"comment", "blank"})
Kinds(ls) == [i \in DOMAIN ls |-> ls[i].kind]

\* C22: for an empty statement consolidate returns an empty sequence and
\* leaves an empty review list, no call rejects, and the finished output
\* holds, besides comments and empty lines, only the open directive, the
\* opening-balance entry when the opening balance is not zero, and the
\* closing balance assertion.
C22_EmptyStatement ==
    \A p \in DOMAIN cpc :
        data[p] = <<>> =>
            /\ cpc[p] # "rejected"
            /\ cpc[p] \in {"awaitConsolidate", "done"} =>
                   /\ ~cres[p].threw
                   /\ cres[p].value = <<>>
                   /\ cres[p].review = <<>>
            /\ cpc[p] = "done" =>
                   /\ Kinds(Directives(lines[p])) =
                          IF cfile[p].openingBalance # 0
                          THEN <<"open", "transaction", "balance">>
                          ELSE <<"open", "balance">>
                   /\ cfile[p].openingBalance # 0 =>
                          Directives(lines[p])[2].entry.narration = <<"Opening", "balance">>

\* an amount with a missing value counted as zero
MissingAsZero(x) == IF x = Null THEN 0 ELSE x

\* C23: a convertTransaction that returns has built exactly two postings: the
\* first on the bank account with credit - debit, missing amounts counted as
\* zero, the second on the account the classifier resolves, with the negated
\* amount, so that the two sum to zero.
C23_TwoBalancedPostings ==
    (/\ callArgs # None
     /\ callArgs[1].op = "convertTransaction"
     /\ callValue # None
     /\ ~callValue[1].threw) =>
        LET txn == callArgs[1].txn
            postings == callValue[1].value[1].postings
        IN  /\ Len(postings) = 2
            /\ postings[1].account = callArgs[1].accountName
            /\ postings[1].amount =
                   MissingAsZero(txn.creditAmount) - MissingAsZero(txn.debitAmount)
            /\ postings[2].account = AccountFor(txn, merchantConfig[1]).account
            /\ postings[2].amount = 0 - postings[1].amount
            /\ postings[1].amount + postings[2].amount = 0

\* a transaction with a credit and a debit has been converted
C23_CreditAndDebitPosted ==
    /\ callArgs # None
    /\ callArgs[1].op = "convertTransaction"
    /\ callValue # None
    /\ ~callValue[1].threw
    /\ callArgs[1].txn.creditAmount = 50
    /\ callArgs[1].txn.debitAmount = 1550
    /\ callValue[1].value[1].postings[1].amount = 0 - 1500
    /\ callValue[1].value[1].postings[2].amount = 1500
    /\ callValue[1].value[1].postings[2].account = "Expenses:Transportation:Fuel"

\* the word w occurs, in any letter case, in a field the description is made of
ContainsWord(txn, w) ==
    \E f \in {txn.conceptoComplementario1, txn.conceptoComplementario9,
              txn.conceptoComplementario2} :
        \E i \in DOMAIN f : LowerWord(f[i]) = w

\* C24: with no merchants.json, so that the built-in rule set is in force, a
\* transaction whose description contains "shell" in any letter case is
\* classified to Expenses:Transportation:Fuel, whatever its debit and credit.
C24_ShellIsFuel ==
    (/\ callArgs # None
     /\ callArgs[1].op = "convertTransaction"
     /\ callValue # None
     /\ merchantsFile = Absent
     /\ ContainsWord(callArgs[1].txn, "shell")) =>
        /\ ~callValue[1].threw
        /\ merchantConfig = Some(DefaultMerchantConfig)
        /\ callValue[1].value[1].postings[2].account = "Expenses:Transportation:Fuel"

\* a credit whose description holds a groceries keyword before SHELL in upper
\* case has been classified under the built-in rule set
C24_UpperCaseShellCredit ==
    /\ callArgs # None
    /\ callArgs[1].op = "convertTransaction"
    /\ callValue # None
    /\ merchantsFile = Absent
    /\ callArgs[1].txn.conceptoComplementario1 = <<"LIDL", "SHELL">>
    /\ callArgs[1].txn.creditAmount = 50
    /\ callArgs[1].txn.debitAmount = Null
    /\ ~callValue[1].threw
    /\ callValue[1].value[1].postings[2].account = "Expenses:Transportation:Fuel"

\* C25: once the rule set has been asked for, the built-in set is in the
\* cache only if merchants.json is absent; with a file that cannot be read or
\* cannot be parsed every call has raised ConfigurationError and the cache
\* holds nothing; with a file that holds a rule set the cache holds that set.
C25_DefaultsOnlyWhenAbsent ==
    cacct # None =>
        /\ merchantsFile.status \in {"unreadable", "unparsable"} =>
               /\ cacct[1].threw
               /\ cacct[1].account = "ConfigurationError"
               /\ merchantConfig = None
        /\ merchantsFile.status = "absent" =>
               merchantConfig = Some(DefaultMerchantConfig)
        /\ merchantsFile.status = "ok" =>
               merchantConfig = Some(merchantsFile.config)
        /\ merchantConfig = Some(DefaultMerchantConfig) =>
               merchantsFile.status = "absent"

\* a transaction has been classified with a merchants.json that is not JSON
C25_UnparsableFileRaised ==
    /\ merchantsFile = Unparsable
    /\ ctxn # None
    /\ ctxn[1].conceptoComplementario1 = <<"Shell">>
    /\ cacct = Some([threw |-> TRUE, account |-> "ConfigurationError"])
    /\ merchantConfig = None

\* a is a prefix of b
IsPrefix(a, b) == Len(a) <= Len(b) /\ SubSeq(b, 1, Len(a)) = a

\* the path resolves to the base directory or to a place below it
StaysInside(filePath, baseDir) ==
    IsPrefix(baseDir.parts, resolve(baseDir, filePath).parts)

\* the text of the path holds ".." or a NUL character
HoldsDotDotOrNul(filePath) ==
    \E i \in DOMAIN filePath.parts :
        SegmentIncludesDotDot(filePath.parts[i]) \/ SegmentIncludesNul(filePath.parts[i])

\* C27: validateSafePath raises ValidationError for every path that resolves
\* outside the base directory or holds ".." or a NUL character, and returns
\* for every relative path that stays inside the base directory and holds
\* neither.
C27_SafePath ==
    (/\ callArgs # None
     /\ callArgs[1].op = "validateSafePath"
     /\ callValue # None) =>
        LET filePath == callArgs[1].filePath
            baseDir == callArgs[1].baseDir
        IN  /\ (~StaysInside(filePath, baseDir) \/ HoldsDotDotOrNul(filePath)) =>
                   callValue[1].threw /\ callValue[1].error = "ValidationError"
            /\ (/\ ~filePath.absolute
                /\ StaysInside(filePath, baseDir)
                /\ ~HoldsDotDotOrNul(filePath)) =>
                   ~callValue[1].threw

\* docs/../test.xls, which stays inside the base directory, has been rejected
C27_DotDotInsideRejected ==
    /\ callArgs # None
    /\ callArgs[1].op = "validateSafePath"
    /\ callArgs[1].filePath = RelativePath(<<"docs", "..", "test.xls">>)
    /\ callArgs[1].baseDir = AbsolutePath(<<"home", "user">>)
    /\ callValue = Some([threw |-> TRUE, error |-> "ValidationError",
                         message |-> "Invalid characters in path"])

\* C26: the steps of the CLI succeed in the order of the claim; the output
\* file and its directory are touched only once input-path validation,
\* extension validation, the existence check, output-path validation, parsing
\* with at least one transaction and conversion have all succeeded; a run
\* that ended with one of these steps failed has exit status 1 and has left
\* the output path as it found it.
C26_WriteLast ==
    cliArgs # None =>
        /\ IsPrefix(cliPassed, CliSteps \o <<"write">>)
        /\ outputFile # cliArgs[1].outputFile0 => IsPrefix(CliSteps, cliPassed)
        /\ outputDir # cliArgs[1].outputDir0 => IsPrefix(CliSteps, cliPassed)
        /\ (cliPc = "exited" /\ ~IsPrefix(CliSteps, cliPassed)) =>
               /\ exitCode = Some(1)
               /\ outputFile = cliArgs[1].outputFile0
               /\ outputDir = cliArgs[1].outputDir0
        /\ exitCode = Some(0) => outputFile = "written"

\* a run has ended with status 1 because conversion rejected, every step
\* before it having succeeded, and the existing output file is untouched
C26_ConversionFailedFileUntouched ==
    /\ cliArgs # None
    /\ cliPc = "exited"
    /\ exitCode = Some(1)
    /\ cliPassed = <<"validateInput", "validateExtension", "checkExists", "validateOutput",
                     "parse">>
    /\ cliArgs[1].convert = "rejects"
    /\ cliArgs[1].outputFile0 = "old"
    /\ outputFile = "old"

\* C28: the sum of credit - debit over the reduced sequence a call returned
\* equals the sum over the sequence it was given.
C28_NetEffectPreserved ==
    Returned => NetAmount(result.value) = NetAmount(input0)

\* C29: the three legs of every group detectPreAuthPattern formed during a
\* call are three different records of the input.
C29_DistinctLegs ==
    pc # "idle" =>
        \A g \in DOMAIN result.detected :
            LET legs == result.detected[g].transactions
            IN  /\ Len(legs) = 3
                /\ \A k \in 1..3 : legs[k] \in Range(input0)
                /\ legs[1] # legs[2]
                /\ legs[1] # legs[3]
                /\ legs[2] # legs[3]

\* the pre-auth leg of a candidate is described as a vending machine
VendingKeyword(candidate) ==
    \/ ContainsWord(candidate.transactions[1], "vending")
    \/ ContainsWord(candidate.transactions[1], "serunion")

\* C30: every group formed during a call of consolidate is high if its
\* pre-auth's description contains "vending" or "serunion" and medium if not,
\* so none is low; and the review list holds no high-confidence candidate.
C30_TierByKeyword ==
    /\ \A r \in {result, result2} :
           \A g \in DOMAIN r.detected :
               r.detected[g].confidence =
                   IF VendingKeyword(r.detected[g]) THEN "high" ELSE "medium"
    /\ \A c \in DOMAIN manualReviewCandidates :
           manualReviewCandidates[c].confidence # "high"

\* a group with a vending pre-auth and a purchase of 1.80, outside 0.50..1.50,
\* has been formed and is high
C30_HighWithoutRangePoint ==
    /\ pc # "idle"
    /\ \E g \in DOMAIN result.detected :
           /\ VendingKeyword(result.detected[g])
           /\ result.detected[g].transactions[2].debitAmount = 180
           /\ result.detected[g].confidence = "high"
====
